---- MODULE Spec2Model ----
(***************************************************************************)
(* Code2Concept backend (backend/server.js): the render pipeline of        *)
(* POST /api/getAnimation, its subprocess event handlers, the temporary    *)
(* files it creates under renders/ and audio/, the published tree under    *)
(* videos/, and the two cleanup endpoints.                                 *)
(*                                                                         *)
(* Node runs every handler to completion, so one action is one handler     *)
(* run: from the event that resumes it up to its next await or its return. *)
(***************************************************************************)
EXTENDS Integers, Sequences, FiniteSets, TLC

\* ------------------------------------------------------------ bounds
\* Chunks a subprocess writes to one of its output streams.
MaxChunks == 1

\* Entries in one directory listing of the trees findVideoFile is tried on.
MaxItems == 2

\* Parts (a backtick, a fence, a line break, a value, ...) that the texts
\* cleanJsonResponse is tried on are put together from.
MaxParts == 5
\* the calls to POST /api/getAnimation the player may have outstanding for
\* one approach title
MaxFetches == 2

\* The two POST /api/getAnimation requests, in flight together.
Jobs == {1, 2}
\* the values uuidv4() returns
Ids == {1, 2}
\* null for a variable that holds a job id or a path keyed by it
NoId == 0
\* null for a path (findVideoFile's not-found result)
NoPath == << >>

VARIABLES
  pc,             \* what each request's handler is suspended on
  scriptId,       \* generateManimScript's uuid, the renderId of the job
  renderDir,      \* the handler's local renderDir (NoId = null)
  audioFilePath,  \* the handler's local audioFilePath (NoId = null)
  output,         \* the manim 'data' handler's accumulated stdout
  errorOutput,    \* the manim 'data' handler's accumulated stderr
  videoPath,      \* findVideoFile's result, held across the mux await
  finalVideoPath, \* the path handed to combineVideoAndAudio
  res,            \* responses sent on each request's res object
  unhandled,      \* an exception escaped one of the request's handlers
  log,            \* the stages each request has gone through, in order
  pyProc,         \* the speech subprocess of generateAudio
  manimProc,      \* the renderer subprocess
  ffProc,         \* the muxer subprocess of combineVideoAndAudio
  audioErrorOutput,  \* generateAudio's accumulated stderr of its subprocess
  ffmpegErrorOutput, \* combineVideoAndAudio's accumulated stderr
  renders,        \* renders/<id>: does it exist, and its listing
  audioFiles,     \* ids whose audio/<id>.wav exists
  driverFiles,    \* ids whose audio/<id>_script.py exists
  videos,         \* videos/<id>: does it exist, and its listing
  dirs,           \* which of __dirname, renders/, audio/ and videos/ exist
  cleanupRes,     \* the latest request to a cleanup endpoint and its response
  analyze,        \* a POST /api/analyze request: its handler and its res object
  approachTitle,  \* VideoSection's prop approach, by its title
  isLoading,      \* VideoSection's state isLoading
  playerError,    \* VideoSection's state error (NoError = null)
  videoUrls,      \* the video context: the URL kept for each approach title
  videoRequested, \* the video context: the requested flag of each title
  fetches,        \* each title's fetchVideoUrl calls awaiting their response
  lastStep        \* the player's latest step: what ran, for which title, and
                  \* what the request had ended with if a call resumed

jobVars == << pc, scriptId, renderDir, audioFilePath, output, errorOutput,
              videoPath, finalVideoPath, res, unhandled, log >>
procVars == << pyProc, manimProc, ffProc, audioErrorOutput,
              ffmpegErrorOutput >>
fsVars == << renders, audioFiles, driverFiles, videos, dirs >>
playerVars == << approachTitle, isLoading, playerError, videoUrls, videoRequested,
                 fetches, lastStep >>
vars == << jobVars, procVars, fsVars, cleanupRes, analyze, playerVars >>

\* ------------------------------------------------------------ file names
\* A file name is a sequence of pieces; ".mp4" and ".py" are pieces of their
\* own, so that endsWith and replace act on the name as the code's do.
MP4 == ".mp4"

File(name) == [name |-> name, isFile |-> TRUE, items |-> << >>]
Dir(name, items) == [name |-> name, isFile |-> FALSE, items |-> items]

NoDir == [exists |-> FALSE, items |-> << >>]
DirOf(items) == [exists |-> TRUE, items |-> items]

\* String.prototype.endsWith('.mp4')
EndsWithMp4(name) == Len(name) > 0 /\ name[Len(name)] = MP4

Min(S) == CHOOSE x \in S : \A y \in S : x <= y

\* String.prototype.replace('.mp4', ''): the first occurrence only
ReplaceFirstMp4(name) ==
  LET hits == {i \in 1..Len(name) : name[i] = MP4}
  IN IF hits = {} THEN name
     ELSE LET k == Min(hits)
          IN SubSeq(name, 1, k - 1) \o SubSeq(name, k + 1, Len(name))

\* path.basename
Basename(path) == path[Len(path)]

\* ------------------------------------------------------------ filesystem
\* Paths are relative to __dirname, the directory of server.js: a sequence of
\* names, << >> for __dirname itself.
Dirname == << >>
rendersDir == << "renders" >>
videosDir == << "videos" >>
audioDir == << "audio" >>
\* lines 21-26: the three directories exist when the server starts
AllDirs == {Dirname, rendersDir, videosDir, audioDir}

\* the name a job id has as a path segment or in a URL
IdName(id) == ToString(id)

RECURSIVE pathJoin(_, _)
\* path.join(base, segments): "." stays in place and ".." goes up one level
pathJoin(base, segments) ==
  IF segments = << >> THEN base
  ELSE LET s == Head(segments)
           next == IF s = "." THEN base
                   ELSE IF s = ".."
                        THEN (IF base = << >> THEN base
                              ELSE SubSeq(base, 1, Len(base) - 1))
                        ELSE Append(base, s)
       IN pathJoin(next, Tail(segments))

\* path lies in the tree under dir (or is dir)
Under(path, dir) ==
  Len(path) >= Len(dir) /\ SubSeq(path, 1, Len(dir)) = dir

\* a deleteDirectory that checks for the directory and removes nothing
deleteDirectoryKeeps(tree, id, rmThrows) == tree

\* fs.rmSync may throw (the directory stays); the catch swallows it.
deleteDirectory(tree, id, rmThrows) ==
  IF tree[id].exists
  THEN IF rmThrows THEN tree ELSE [tree EXCEPT ![id] = NoDir]
  ELSE tree

\* a mkdir that empties the directory it creates in
mkdirSyncEmptiesParent(tree, id) ==
  [i \in DOMAIN tree |-> IF i = id THEN DirOf(<< >>) ELSE NoDir]

\* fs.mkdirSync(dir, { recursive: true }): a directory that exists is left alone
mkdirSync(tree, id) ==
  [tree EXCEPT ![id] = IF @.exists THEN @ ELSE DirOf(<< >>)]

RECURSIVE findVideoFile(_, _)
RECURSIVE findInSubdirs(_, _, _)
\* a search that goes into the subdirectories before it looks at the files
findVideoFileSubdirsFirst(dir, d) ==
  IF ~d.exists THEN NoPath
  ELSE LET files == {i \in 1..Len(d.items) :
                       d.items[i].isFile /\ EndsWithMp4(d.items[i].name)}
           result == findInSubdirs(dir, d.items, 1)
       IN IF result # NoPath THEN result
          ELSE IF files # {} THEN Append(dir, d.items[Min(files)].name)
          ELSE NoPath

\* a second loop that returns what the last subdirectory with a match yields
findInSubdirsLast(dir, items, i) ==
  LET hits == {k \in i..Len(items) :
                 /\ ~items[k].isFile
                 /\ findVideoFile(Append(dir, items[k].name),
                                  DirOf(items[k].items)) # NoPath}
      last == CHOOSE k \in hits : \A h \in hits : h <= k
  IN IF hits = {} THEN NoPath
     ELSE findVideoFile(Append(dir, items[last].name), DirOf(items[last].items))

\* dir: the path searched, d: whether it exists and its listing.
\* The result is dir extended to the file found, or NoPath.
findVideoFile(dir, d) ==
  IF ~d.exists THEN NoPath
  ELSE LET files == {i \in 1..Len(d.items) :
                       d.items[i].isFile /\ EndsWithMp4(d.items[i].name)}
       IN IF files # {}
          THEN Append(dir, d.items[Min(files)].name)
          ELSE findInSubdirs(dir, d.items, 1)

\* the second loop of findVideoFile, from the i-th item of the listing on
findInSubdirs(dir, items, i) ==
  IF i > Len(items) THEN NoPath
  ELSE IF ~items[i].isFile
       THEN LET result == findVideoFile(Append(dir, items[i].name),
                                        DirOf(items[i].items))
            IN IF result # NoPath THEN result
               ELSE findInSubdirs(dir, items, i + 1)
       ELSE findInSubdirs(dir, items, i + 1)

\* The script the handler writes into the working directory.
AnimationPy == <<"animation", ".py">>
AlgorithmDemo == <<"AlgorithmDemo", MP4>>

\* What a renderer run may leave in its working directory beside animation.py.
\* manim -ql writes media/videos/animation/480p15/<Scene>.mp4 and its partial
\* movie files; a failed or empty run leaves less.
OutStandard ==
  << Dir(<<"media">>, << Dir(<<"videos">>, << Dir(<<"animation">>, <<
       Dir(<<"480p15">>, << Dir(<<"partial_movie_files">>,
                                << File(<<"uncached_00000", MP4>>) >>),
                            File(AlgorithmDemo) >>) >>) >>) >>) >>
OutNoVideo ==
  << Dir(<<"media">>, << Dir(<<"texts">>, << File(<<"a1", ".svg">>) >>) >>) >>
OutDeepFirst ==
  << Dir(<<"a">>, << Dir(<<"b">>, << File(<<"out", MP4>>) >>) >>),
     Dir(<<"c">>, << File(<<"video", MP4>>) >>) >>
OutShallow ==
  << Dir(<<"a">>, << Dir(<<"b">>, << File(<<"out", MP4>>) >>),
                     File(<<"video", MP4>>) >>) >>
ManimOutputs == { << >>, OutStandard, OutNoVideo, OutDeepFirst, OutShallow }

\* Directory trees to try findVideoFile on: every listing of at most MaxItems
\* entries with distinct names, in every order, of a file that matches, a
\* file whose name only contains ".mp4", a subdirectory a of two levels and
\* a subdirectory c of one.
RECURSIVE ListingsOf(_, _)
\* the listings of at most n of the items, no name twice
ListingsOf(items, n) ==
  IF n = 0 THEN {<< >>}
  ELSE LET shorter == ListingsOf(items, n - 1)
       IN shorter \cup
          UNION {{Append(l, x) : x \in {y \in items :
                                          \A i \in 1..Len(l) : l[i].name # y.name}}
                 : l \in {s \in shorter : Len(s) = n - 1}}
Listings(items) == ListingsOf(items, MaxItems)
TreeFiles == {File(<<"video", MP4>>), File(<<"take", MP4, ".part">>)}
TreesLevel2 == Listings(TreeFiles)
TreesLevel1 == Listings(TreeFiles \cup {Dir(<<"b">>, l) : l \in TreesLevel2})
Trees ==
  Listings(TreeFiles \cup {Dir(<<"a">>, l) : l \in TreesLevel1}
                     \cup {Dir(<<"c">>, l) : l \in TreesLevel2})

\* Exit codes of a subprocess that ran; a failed spawn closes with -errno.
ExitCodes == {0, 1}
SpawnErrno == -2

\* ------------------------------------------------------------ responses
NoUrl == [route |-> "", id |-> NoId, file |-> << >>]
NoFile == [root |-> "", id |-> NoId, file |-> << >>]

Response(status, error, details, streams, out, err, url) ==
  [status |-> status, error |-> error, details |-> details,
   hasStreams |-> streams, output |-> out, errorOutput |-> err,
   videoUrl |-> url]

\* a response sent without res.status(400)
ApproachRequiredNoStatus ==
  Response(200, "Approach details are required", << >>, FALSE, << >>, << >>, NoUrl)

\* line 428
ApproachRequired ==
  Response(400, "Approach details are required", << >>, FALSE, << >>, << >>, NoUrl)
\* a response that leaves the renderer's stderr out
ManimFailedNoStderr(out, err) ==
  Response(500, "Manim failed with code", << >>, TRUE, out, << >>, NoUrl)

\* lines 492-496
ManimFailed(out, err) ==
  Response(500, "Manim failed with code", << >>, TRUE, out, err, NoUrl)
\* the not-found response, worded as the non-zero exit's
NoVideoAsManimFailed(out, err) == ManimFailed(out, err)

\* lines 510-514
NoVideoGenerated(out, err) ==
  Response(500, "No video file generated", << >>, TRUE, out, err, NoUrl)
\* line 540
VideoReady(url) == Response(200, "", << >>, FALSE, << >>, << >>, url)
\* lines 549-554
ProcessingFailed(details, out, err) ==
  Response(500, "Error processing generated video with audio", details,
           TRUE, out, err, NoUrl)
\* lines 565-568
ManimStartFailed ==
  Response(500, "Failed to start Manim process", << "spawn python" >>, FALSE,
           << >>, << >>, NoUrl)
\* lines 578-581
AnimationFailed(details) ==
  Response(500, "Failed to generate animation with audio", details, FALSE,
           << >>, << >>, NoUrl)

\* error.message of the errors the pipeline's promises reject with; a message
\* is the sequence of its pieces, a template's text and the values put in it.
\* a message that leaves the subprocess's stderr out
AudioGenerationFailedBare(err) == << "Audio generation failed: " >>

\* line 195
AudioGenerationFailed(err) == << "Audio generation failed: " >> \o err
\* line 200
AudioStartFailed == << "Failed to start audio generation: ", "spawn python" >>
\* line 239
FfmpegFailed(code, err) ==
  << "FFmpeg failed with code ", ToString(code), ": " >> \o err
\* line 244
FfmpegStartFailed == << "Failed to start FFmpeg: ", "spawn ffmpeg" >>

\* ------------------------------------------------------------ POST /api/analyze
\* The text the model answers with is a sequence of pieces: a backtick, the
\* word json, a line break, a blank, prose, or a JSON value. A markdown fence
\* is three backticks, with or without the word json after them.
Tick == "tick"
Json == "json"
LineBreak == "\n"
Whitespace == {LineBreak, " "}
JsonValues == {"[approaches]", "{}"}
SyntaxError == "SyntaxError"
\* the fences the two patterns of cleanJsonResponse look for
FenceJson == << Tick, Tick, Tick, Json >>
Fence == << Tick, Tick, Tick >>

StartsWith(text, part) ==
  Len(text) >= Len(part) /\ SubSeq(text, 1, Len(part)) = part

\* a replace without the g flag: only the first fence goes
StripFenceFirst(text, fence) ==
  LET hits == {i \in 1..Len(text) :
                 StartsWith(SubSeq(text, i, Len(text)), fence)}
  IN IF hits = {} THEN text
     ELSE LET i == Min(hits)
              after == SubSeq(text, i + Len(fence), Len(text))
          IN SubSeq(text, 1, i - 1)
               \o (IF StartsWith(after, << LineBreak >>) THEN Tail(after)
                                                           ELSE after)

RECURSIVE StripFence(_, _)
\* text.replace(/<fence>\n?/g, ''): every occurrence of the fence goes, found
\* from left to right in the text as it was, and with each a line break that
\* follows it directly
StripFence(text, fence) ==
  IF text = << >> THEN << >>
  ELSE IF StartsWith(text, fence)
       THEN LET after == SubSeq(text, Len(fence) + 1, Len(text))
            IN IF StartsWith(after, << LineBreak >>)
               THEN StripFence(Tail(after), fence)
               ELSE StripFence(after, fence)
       ELSE << Head(text) >> \o StripFence(Tail(text), fence)

\* String.prototype.trim
Trim(text) ==
  LET solid == {i \in 1..Len(text) : text[i] \notin Whitespace}
  IN IF solid = {} THEN << >>
     ELSE SubSeq(text, Min(solid), CHOOSE i \in solid : \A k \in solid : k <= i)

\* lines 70-75
cleanJsonResponse(text) == Trim(StripFence(StripFence(text, FenceJson), Fence))

\* JSON.parse: the value, when the text is one JSON value with nothing but
\* white space around it
JsonParse(text) ==
  LET tokens == SelectSeq(text, LAMBDA piece : piece \notin Whitespace)
  IN IF Len(tokens) = 1 /\ tokens[1] \in JsonValues THEN tokens[1]
     ELSE SyntaxError

\* what the model may answer with
ModelTexts ==
  { << "[approaches]" >>,
    FenceJson \o << LineBreak, "[approaches]", LineBreak >> \o Fence,
    Fence \o << LineBreak, "{}" >> \o Fence \o << LineBreak >>,
    << " ", "[approaches]", LineBreak >>,
    << "prose", LineBreak >> \o FenceJson \o << LineBreak, "[approaches]" >>
      \o Fence,
    FenceJson \o << LineBreak, "[approaches]", "[approaches]" >> \o Fence,
    << >> }

\* Texts to try cleanJsonResponse on: every text put together from at most
\* MaxParts parts, a part being a backtick, a fence of either kind, the word
\* json, a line break, a blank or a JSON value.
TextParts ==
  {<< Tick >>, Fence, FenceJson, << Json >>, << LineBreak >>, << " " >>,
   << "[approaches]" >>}
RECURSIVE TextsOf(_)
TextsOf(n) ==
  IF n = 0 THEN {<< >>}
  ELSE LET shorter == TextsOf(n - 1)
       IN shorter \cup {t \o p : t \in shorter, p \in TextParts}
Texts == TextsOf(MaxParts)

\* req.body.question, absent or given
NoQuestion == ""
Questions == {NoQuestion, "two sum"}

AnalysisResponse(status, error, question, title, approaches) ==
  [status |-> status, error |-> error, question |-> question,
   title |-> title, approaches |-> approaches]
\* line 404
QuestionRequired == AnalysisResponse(400, "Question is required", "", "", "")
\* lines 409-413
Analysis(question, approaches) ==
  AnalysisResponse(200, "", question, "Problem Analysis", approaches)
\* line 416
AnalyzeFailed == AnalysisResponse(500, "Failed to analyze problem", "", "", "")

\* The request before it arrives. generated: the calls of
\* model.generateContent; rejected, text: how the call ended; cleanedText:
\* what cleanJsonResponse made of the text.
NoAnalysis ==
  [pc |-> "start", question |-> NoQuestion, generated |-> 0,
   rejected |-> FALSE, text |-> << >>, cleanedText |-> << >>, res |-> << >>]

\* a test that lets every question through
QuestionMissingNever(question) == FALSE

\* line 403: !question
QuestionMissing(question) == question = NoQuestion

\* The request arrives: lines 399-407 and generateApproaches up to its await
\* of model.generateContent (line 278).
AnalyzeReceive(question) ==
  /\ analyze.pc = "start"
  /\ analyze' =
       IF QuestionMissing(question)
       THEN [analyze EXCEPT !.pc = "done", !.question = question,
                            !.res = Append(@, QuestionRequired)]
       ELSE [analyze EXCEPT !.pc = "awaitApproaches", !.question = question,
                            !.generated = @ + 1]
  /\ UNCHANGED << jobVars, procVars, fsVars, cleanupRes, playerVars >>

\* model.generateContent settles: lines 278-289 of generateApproaches, then
\* lines 409-413 of the handler, or its catch (lines 414-417).
AnalyzeDone(rejected, text) ==
  /\ analyze.pc = "awaitApproaches"
  /\ rejected => text = << >>
  /\ LET cleanedText == cleanJsonResponse(text)
         approaches == JsonParse(cleanedText)
     IN analyze' =
          [analyze EXCEPT
             !.pc = "done", !.rejected = rejected, !.text = text,
             !.cleanedText = cleanedText,
             !.res = Append(@, IF rejected \/ approaches = SyntaxError
                               THEN AnalyzeFailed
                               ELSE Analysis(analyze.question, approaches))]
  /\ UNCHANGED << jobVars, procVars, fsVars, cleanupRes, playerVars >>

\* line 282: cleanJsonResponse(text), on its own
CleanText ==
  /\ analyze.pc = "text"
  /\ analyze' = [analyze EXCEPT !.pc = "cleaned",
                                !.cleanedText = cleanJsonResponse(analyze.text)]
  /\ UNCHANGED << jobVars, procVars, fsVars, cleanupRes, playerVars >>

\* ------------------------------------------------------------ cleanup requests
\* A request to a cleanup endpoint (its route, the job id req.params.videoId
\* names, if any, and the path videoDir made of it) with the response sent to
\* it: the status, and the number the message reports.
CleanupResponse(route, videoId, videoDir, status, deletedCount) ==
  [route |-> route, videoId |-> videoId, videoDir |-> videoDir,
   status |-> status, deletedCount |-> deletedCount]
NoCleanup == CleanupResponse("", NoId, << >>, 0, 0)

\* a cleanup block that, given no directory of its own, clears renders/ and
\* audio/
cleanupTempSweeps(rd, afp, rs, au, rmThrows, unlinkThrows) ==
  IF rd = NoId
  THEN [renders |-> [i \in DOMAIN rs |-> NoDir], audioFiles |-> {},
        threw |-> FALSE]
  ELSE [renders |-> deleteDirectory(rs, rd, rmThrows),
        audioFiles |-> IF afp # NoId THEN au \ {afp} ELSE au,
        threw |-> FALSE]

\* a cleanup block that unlinks the audio file without asking whether it
\* exists: unlinkSync throws (ENOENT) when it does not
cleanupTempUnchecked(rd, afp, rs, au, rmThrows, unlinkThrows) ==
  [renders |-> IF rd # NoId THEN deleteDirectory(rs, rd, rmThrows) ELSE rs,
   audioFiles |-> IF afp # NoId THEN au \ {afp} ELSE au,
   threw |-> afp # NoId /\ afp \notin au]

\* lines 489-490 (and 507-508, 534-537, 546-547, 562-563, 575-576):
\* rd, afp are the handler's renderDir and audioFilePath; rs, au the
\* filesystem as it is when the block runs. threw: fs.unlinkSync threw.
cleanupTemp(rd, afp, rs, au, rmThrows, unlinkThrows) ==
  LET unlinks == afp # NoId /\ afp \in au
  IN [renders |-> IF rd # NoId THEN deleteDirectory(rs, rd, rmThrows) ELSE rs,
      audioFiles |-> IF unlinks /\ ~unlinkThrows THEN au \ {afp} ELSE au,
      threw |-> unlinks /\ unlinkThrows]

\* uuidv4() (line 294): an id no earlier call returned
UsedIds == {scriptId[j] : j \in Jobs} \ {NoId}
\* an id generator that repeats itself
uuidRepeats == Min(Ids)

uuidv4 == Min(Ids \ UsedIds)

\* ------------------------------------------------------------ the video player
\* src/src/section/VideoSection.jsx. The component reads and writes the video
\* context (useVideo, line 27): a URL and a requested flag kept for each
\* approach title. A read of the context sees the latest write.
Titles == {"Brute Force", "Two Pointers"}
\* no component rendered
NoTitle == ""
\* null for the error state
NoError == "null"
\* no URL kept for a title (getVideoUrl's falsy result), and a response body
\* without videoUrl
NoVideoUrl == << >>

serverVars == << jobVars, procVars, fsVars, cleanupRes, analyze >>

getVideoUrl(title) == videoUrls[title]
setVideoUrl(title, url) == [videoUrls EXCEPT ![title] = url]
isVideoRequested(requested, title) == requested[title]
setVideoRequested(requested, title, value) == [requested EXCEPT ![title] = value]

\* What a POST /api/getAnimation call of the player ends with: the fetch
\* rejected (no connection), or a response with its ok flag and the body's
\* error and videoUrl.
FetchOutcome(rejected, ok, err, videoUrl) ==
  [rejected |-> rejected, ok |-> ok, error |-> err, videoUrl |-> videoUrl]
FetchOutcomes ==
  {FetchOutcome(rejected, ok, err, videoUrl) :
     rejected \in BOOLEAN, ok \in BOOLEAN,
     err \in {"", "Failed to generate animation"},
     videoUrl \in {NoVideoUrl, << "/videos/1/Scene_with_audio.mp4" >>}}

\* lines 59-75: the message of the Error thrown for an outcome, NoError when
\* none is thrown
FetchError(r) ==
  IF r.rejected THEN "Failed to fetch"
  ELSE IF ~r.ok THEN (IF r.error # "" THEN r.error ELSE "Server error")
  ELSE IF r.videoUrl = NoVideoUrl THEN "No video URL in response"
  ELSE NoError

\* line 70
fullUrl(videoUrl) == << "http://localhost:5000" >> \o videoUrl

\* A step of the player: the function that ran (op), the approach title it
\* ran for, and the outcome a resumed fetchVideoUrl call was handed.
PlayerStep(op, title, r) == [op |-> op, title |-> title, outcome |-> r]
NoOutcome == FetchOutcome(FALSE, FALSE, "", NoVideoUrl)
NoStep == PlayerStep("", NoTitle, NoOutcome)

\* lines 11 and 20: the component's state when it mounts for an approach,
\* with nothing kept in the context
Mounted(title) ==
  /\ approachTitle = title
  /\ isLoading = TRUE
  /\ playerError = NoError
  /\ videoUrls = [t \in Titles |-> NoVideoUrl]
  /\ videoRequested = [t \in Titles |-> FALSE]
  /\ fetches = [t \in Titles |-> 0]
  /\ lastStep = NoStep

NoPlayer == Mounted(NoTitle)

\* lines 32-57: fetchVideoUrl up to its await, called for the approach title
\* when the context's flags are requested and the error state is err
fetchVideoUrl(title, requested, err) ==
  IF getVideoUrl(title) # NoVideoUrl
  THEN /\ isLoading' = FALSE
       /\ playerError' = err
       /\ videoRequested' = requested
       /\ fetches' = fetches
  ELSE IF isVideoRequested(requested, title)
  THEN /\ isLoading' = isLoading
       /\ playerError' = err
       /\ videoRequested' = requested
       /\ fetches' = fetches
  ELSE /\ fetches[title] < MaxFetches
       /\ isLoading' = TRUE
       /\ playerError' = NoError
       /\ videoRequested' = setVideoRequested(requested, title, TRUE)
       /\ fetches' = [fetches EXCEPT ![title] = @ + 1]

\* lines 86-93: the component rendered with the approach of this title (the
\* first render, a change of the prop, or a render after the context
\* changed), and its effect run
useEffect(title) ==
  /\ approachTitle # NoTitle
  /\ approachTitle' = title
  /\ IF getVideoUrl(title) # NoVideoUrl
     THEN /\ isLoading' = FALSE
          /\ UNCHANGED << playerError, videoRequested, fetches >>
     ELSE fetchVideoUrl(title, videoRequested, playerError)
  /\ lastStep' = PlayerStep("useEffect", title, NoOutcome)
  /\ UNCHANGED << videoUrls, serverVars >>

\* lines 59-82: a fetchVideoUrl call resumed with what its request ended
\* with. The call is the one made for title, whatever approach the component
\* shows by now.
FetchSettled(title, r) ==
  /\ fetches[title] > 0
  /\ fetches' = [fetches EXCEPT ![title] = @ - 1]
  /\ IF FetchError(r) = NoError
     THEN /\ videoUrls' = setVideoUrl(title, fullUrl(r.videoUrl))
          /\ UNCHANGED << playerError, videoRequested >>
     ELSE /\ playerError' = FetchError(r)
          /\ videoRequested' = setVideoRequested(videoRequested, title, FALSE)
          /\ UNCHANGED videoUrls
  /\ isLoading' = FALSE
  /\ lastStep' = PlayerStep("fetchVideoUrl", title, r)
  /\ UNCHANGED << approachTitle, serverVars >>

\* lines 351-373: the error panel, with its Retry button, is what the
\* component renders
ErrorShown == ~isLoading /\ playerError # NoError

\* lines 351-376: the video element is what the component renders
VideoShown == ~isLoading /\ playerError = NoError /\ getVideoUrl(approachTitle) # NoVideoUrl

\* lines 130-134: the video element's error event
handleError ==
  /\ approachTitle # NoTitle
  /\ VideoShown
  /\ playerError' = "Failed to load video. Please try again."
  /\ lastStep' = PlayerStep("handleError", approachTitle, NoOutcome)
  /\ UNCHANGED << approachTitle, isLoading, videoUrls, videoRequested, fetches,
                  serverVars >>

\* lines 282-286, from the Retry button's onClick (lines 363-366)
retryLoading ==
  /\ approachTitle # NoTitle
  /\ ErrorShown
  /\ fetchVideoUrl(approachTitle,
                   setVideoRequested(videoRequested, approachTitle, FALSE), NoError)
  /\ lastStep' = PlayerStep("retryLoading", approachTitle, NoOutcome)
  /\ UNCHANGED << approachTitle, videoUrls, serverVars >>

\* ------------------------------------------------------------ initial state
InitServer ==
  /\ pc = [j \in Jobs |-> "start"]
  /\ scriptId = [j \in Jobs |-> NoId]
  /\ renderDir = [j \in Jobs |-> NoId]
  /\ audioFilePath = [j \in Jobs |-> NoId]
  /\ output = [j \in Jobs |-> << >>]
  /\ errorOutput = [j \in Jobs |-> << >>]
  /\ videoPath = [j \in Jobs |-> NoPath]
  /\ finalVideoPath = [j \in Jobs |-> NoFile]
  /\ res = [j \in Jobs |-> << >>]
  /\ unhandled = [j \in Jobs |-> FALSE]
  /\ log = [j \in Jobs |-> << >>]
  /\ pyProc = [j \in Jobs |-> "none"]
  /\ manimProc = [j \in Jobs |-> "none"]
  /\ ffProc = [j \in Jobs |-> "none"]
  /\ audioErrorOutput = [j \in Jobs |-> << >>]
  /\ ffmpegErrorOutput = [j \in Jobs |-> << >>]
  /\ renders = [i \in Ids |-> NoDir]
  /\ audioFiles = {}
  /\ driverFiles = {}
  /\ videos = [i \in Ids |-> NoDir]
  /\ dirs = AllDirs
  /\ cleanupRes = NoCleanup
  /\ analyze = NoAnalysis

\* The server started, and no page showing the player.
Init == InitServer /\ NoPlayer

\* The server started, and the player just mounted for an approach: its
\* effect has not run yet.
InitPlayer == InitServer /\ \E title \in Titles : Mounted(title)

\* A working directory as a renderer may have left it, or one that does not
\* exist, about to be searched.
InitLocate ==
  /\ pc = [j \in Jobs |-> "start"]
  /\ scriptId = [j \in Jobs |-> NoId]
  /\ renderDir = [j \in Jobs |-> IF j = Min(Jobs) THEN Min(Ids) ELSE NoId]
  /\ audioFilePath = [j \in Jobs |-> NoId]
  /\ output = [j \in Jobs |-> << >>]
  /\ errorOutput = [j \in Jobs |-> << >>]
  /\ videoPath = [j \in Jobs |-> NoPath]
  /\ finalVideoPath = [j \in Jobs |-> NoFile]
  /\ res = [j \in Jobs |-> << >>]
  /\ unhandled = [j \in Jobs |-> FALSE]
  /\ log = [j \in Jobs |-> << >>]
  /\ pyProc = [j \in Jobs |-> "none"]
  /\ manimProc = [j \in Jobs |-> "none"]
  /\ ffProc = [j \in Jobs |-> "none"]
  /\ audioErrorOutput = [j \in Jobs |-> << >>]
  /\ ffmpegErrorOutput = [j \in Jobs |-> << >>]
  /\ \E d \in {DirOf(t) : t \in Trees} \cup {NoDir} :
       renders = [i \in Ids |-> IF i = Min(Ids) THEN d ELSE NoDir]
  /\ audioFiles = {}
  /\ driverFiles = {}
  /\ videos = [i \in Ids |-> NoDir]
  /\ dirs = AllDirs
  /\ cleanupRes = NoCleanup
  /\ analyze = NoAnalysis
  /\ NoPlayer

\* A text the model has answered with, about to be cleaned.
InitClean ==
  /\ pc = [j \in Jobs |-> "start"]
  /\ scriptId = [j \in Jobs |-> NoId]
  /\ renderDir = [j \in Jobs |-> NoId]
  /\ audioFilePath = [j \in Jobs |-> NoId]
  /\ output = [j \in Jobs |-> << >>]
  /\ errorOutput = [j \in Jobs |-> << >>]
  /\ videoPath = [j \in Jobs |-> NoPath]
  /\ finalVideoPath = [j \in Jobs |-> NoFile]
  /\ res = [j \in Jobs |-> << >>]
  /\ unhandled = [j \in Jobs |-> FALSE]
  /\ log = [j \in Jobs |-> << >>]
  /\ pyProc = [j \in Jobs |-> "none"]
  /\ manimProc = [j \in Jobs |-> "none"]
  /\ ffProc = [j \in Jobs |-> "none"]
  /\ audioErrorOutput = [j \in Jobs |-> << >>]
  /\ ffmpegErrorOutput = [j \in Jobs |-> << >>]
  /\ renders = [i \in Ids |-> NoDir]
  /\ audioFiles = {}
  /\ driverFiles = {}
  /\ videos = [i \in Ids |-> NoDir]
  /\ dirs = AllDirs
  /\ cleanupRes = NoCleanup
  /\ \E text \in Texts :
       analyze = [NoAnalysis EXCEPT !.pc = "text", !.text = text]
  /\ NoPlayer

\* ------------------------------------------------------------ handler parts
Logged(j, evs) == [log EXCEPT ![j] = @ \o evs]

\* a res.json that sends whenever it is called
SentAgain(j, r) == [res EXCEPT ![j] = Append(@, r)]

\* res.status(..).json(..): the first call on a response sends it; a later one
\* throws (headers already sent) and sends nothing.
Sent(j, r) == IF res[j] = << >> THEN [res EXCEPT ![j] = << r >>] ELSE res
SendThrows(j) == res[j] # << >>

\* A handler run that ends in a cleanup block followed by a response: the
\* values it leaves. An exception that escapes (unlinkSync in the cleanup
\* block, or the send itself) ends the run with nothing sent.
Answered(j, c, r) ==
  [renders |-> c.renders, audioFiles |-> c.audioFiles,
   res |-> IF c.threw THEN res ELSE Sent(j, r),
   unhandled |-> IF c.threw \/ SendThrows(j)
                 THEN [unhandled EXCEPT ![j] = TRUE] ELSE unhandled,
   evs |-> IF c.threw THEN << "cleanup.throw" >>
           ELSE IF SendThrows(j) THEN << "cleanup", "respond.throw" >>
           ELSE << "cleanup", "respond" >>]

\* a catch that cleans up and sends nothing
catchOuterSilent(j, rd, afp, rs, au, details, rmThrows, unlinkThrows) ==
  LET c == cleanupTemp(rd, afp, rs, au, rmThrows, unlinkThrows)
  IN [renders |-> c.renders, audioFiles |-> c.audioFiles, res |-> res,
      unhandled |-> unhandled, evs |-> << "cleanup" >>]

\* the catch of the route handler, lines 571-582
catchOuter(j, rd, afp, rs, au, details, rmThrows, unlinkThrows) ==
  Answered(j, cleanupTemp(rd, afp, rs, au, rmThrows, unlinkThrows),
           AnimationFailed(details))

\* the catch of the 'close' listener, lines 542-555
catchClose(j, rs, au, details, rmThrows, unlinkThrows) ==
  Answered(j, cleanupTemp(renderDir[j], audioFilePath[j], rs, au,
                          rmThrows, unlinkThrows),
           ProcessingFailed(details, output[j], errorOutput[j]))

\* a handler run that ends by taking the request up again from the start
EndsRetries(j, o, evs) ==
  /\ renders' = o.renders
  /\ audioFiles' = o.audioFiles
  /\ res' = o.res
  /\ unhandled' = o.unhandled
  /\ log' = Logged(j, evs \o o.evs)
  /\ pc' = [pc EXCEPT ![j] = IF o.res[j] # << >> /\ o.res[j][1].status = 500
                              THEN "start" ELSE "done"]

\* The handler run ends with outcome o (of Answered) and nothing left to await.
Ends(j, o, evs) ==
  /\ renders' = o.renders
  /\ audioFiles' = o.audioFiles
  /\ res' = o.res
  /\ unhandled' = o.unhandled
  /\ log' = Logged(j, evs \o o.evs)
  /\ pc' = [pc EXCEPT ![j] = "done"]

\* ------------------------------------------------------------ POST /api/getAnimation
\* The request arrives: lines 421-440, up to the await of generateNarrationSteps.
Receive(j, approach) ==
  /\ pc[j] = "start"
  /\ CASE approach = "missing" ->
            /\ res' = Sent(j, ApproachRequired)
            /\ log' = Logged(j, << "respond" >>)
            /\ pc' = [pc EXCEPT ![j] = "done"]
            /\ UNCHANGED << unhandled, renders, audioFiles >>
       [] approach = "noCode" ->
            \* approach.code is undefined: line 434 throws a TypeError
            Ends(j, catchOuter(j, renderDir[j], audioFilePath[j], renders,
                               audioFiles, << "TypeError" >>, FALSE, FALSE), << >>)
       [] OTHER ->
            /\ pc' = [pc EXCEPT ![j] = "awaitNarration"]
            /\ log' = Logged(j, << "narration.start" >>)
            /\ UNCHANGED << res, unhandled, renders, audioFiles >>
  /\ UNCHANGED << scriptId, renderDir, audioFilePath, output, errorOutput,
                  videoPath, finalVideoPath, procVars, driverFiles, videos,
                  cleanupRes, analyze, dirs, playerVars >>

\* generateNarrationSteps settles: lines 440-443 and generateManimScript up to
\* its await (line 387); uuidv4() is called before the model is asked.
NarrationDone(j, ok) ==
  /\ pc[j] = "awaitNarration"
  /\ IF ok
     THEN /\ scriptId' = [scriptId EXCEPT ![j] = uuidv4]
          /\ pc' = [pc EXCEPT ![j] = "awaitScript"]
          /\ log' = Logged(j, << "narration.ok", "script.start" >>)
          /\ UNCHANGED << res, unhandled, renders, audioFiles >>
     ELSE /\ Ends(j, catchOuter(j, renderDir[j], audioFilePath[j], renders,
                                audioFiles, << "narration" >>, FALSE, FALSE),
                  << "narration.fail" >>)
          /\ UNCHANGED scriptId
  /\ UNCHANGED << renderDir, audioFilePath, output, errorOutput, videoPath,
                  finalVideoPath, procVars, driverFiles, videos,
                  cleanupRes, analyze, dirs, playerVars >>

\* How far lines 446-456 and generateAudio (lines 128-169) get before the
\* handler awaits the speech subprocess.
PrepOutcomes == {"mkdirThrows", "writeThrows", "driverWriteThrows",
                 "spawnThrows", "spawned"}

\* generateManimScript settles: lines 443-456, and generateAudio up to the
\* promise it returns.
ScriptDone(j, ok, prep, rmThrows) ==
  /\ pc[j] = "awaitScript"
  \* fs.writeFileSync(scriptPath, ..) of line 164 throws when audio/ is gone
  /\ prep \in {"spawnThrows", "spawned"} => audioDir \in dirs
  \* fs.mkdirSync(renderDir, { recursive: true }) makes renders/ as well
  /\ dirs' = IF ok /\ prep # "mkdirThrows" THEN dirs \cup {Dirname, rendersDir}
                                            ELSE dirs
  /\ LET id == scriptId[j]
         made == [renders EXCEPT ![id] = DirOf(<< >>)]
         written == [renders EXCEPT ![id] = DirOf(<< File(AnimationPy) >>)]
     IN IF ~ok
        THEN /\ Ends(j, catchOuter(j, renderDir[j], audioFilePath[j], renders,
                                   audioFiles, << "script" >>, rmThrows, FALSE),
                     << "script.fail" >>)
             /\ UNCHANGED << renderDir, pyProc, driverFiles >>
        ELSE /\ renderDir' = [renderDir EXCEPT ![j] = id]
             /\ CASE prep = "mkdirThrows" ->
                       /\ Ends(j, catchOuter(j, id, audioFilePath[j], renders,
                                             audioFiles, << "mkdir" >>, rmThrows, FALSE),
                               << "script.ok", "mkdir.fail" >>)
                       /\ UNCHANGED << pyProc, driverFiles >>
                  [] prep = "writeThrows" ->
                       /\ Ends(j, catchOuter(j, id, audioFilePath[j], made,
                                             audioFiles, << "write" >>, rmThrows, FALSE),
                               << "script.ok", "mkdir", "write.fail" >>)
                       /\ UNCHANGED << pyProc, driverFiles >>
                  [] prep = "driverWriteThrows" ->
                       /\ Ends(j, catchOuter(j, id, audioFilePath[j], written,
                                             audioFiles, << "driver" >>, rmThrows, FALSE),
                               << "script.ok", "mkdir", "write",
                                  "speech.start", "speech.fail" >>)
                       /\ UNCHANGED << pyProc, driverFiles >>
                  [] prep = "spawnThrows" ->
                       /\ Ends(j, catchOuter(j, id, audioFilePath[j], written,
                                             audioFiles, << "spawn" >>, rmThrows, FALSE),
                               << "script.ok", "mkdir", "write",
                                  "speech.start", "speech.fail" >>)
                       /\ driverFiles' = driverFiles \cup {id}
                       /\ UNCHANGED pyProc
                  [] OTHER ->
                       /\ renders' = written
                       /\ driverFiles' = driverFiles \cup {id}
                       /\ pyProc' = [pyProc EXCEPT ![j] = "running"]
                       /\ pc' = [pc EXCEPT ![j] = "awaitAudio"]
                       /\ log' = Logged(j, << "script.ok", "mkdir", "write",
                                              "speech.start" >>)
                       /\ UNCHANGED << res, unhandled, audioFiles >>
  /\ UNCHANGED << scriptId, audioFilePath, output, errorOutput, videoPath,
                  finalVideoPath, manimProc, ffProc, audioErrorOutput,
                  ffmpegErrorOutput, videos,
                  cleanupRes, analyze, playerVars >>

\* a test that looks at the exit code only
AudioGeneratedExitOnly(code, exists) == code = 0

\* a test that takes any close of the speech subprocess for a success
AudioGeneratedAlways(code, exists) == TRUE

\* line 190: the test that resolves generateAudio's promise
AudioGenerated(code, exists) == code = 0 /\ exists

\* a test that takes only a failed spawn for a renderer failure
ManimExitFailedOnlySpawn(code) == code < 0

\* line 484: the test that makes the 'close' listener of the renderer give up
ManimExitFailed(code) == code # 0

\* a test that takes any close of the muxer for a success
FfmpegSucceededAlways(code) == TRUE

\* line 234: the test that resolves combineVideoAndAudio's promise
FfmpegSucceeded(code) == code = 0

\* The speech subprocess closes: generateAudio's 'close' listener (lines
\* 182-197); when that resolves or rejects the promise the handler awaits, the
\* handler goes on in the same run: lines 456-479 up to its return, or its
\* catch. wrote: the subprocess saved audio/<id>.wav before it exited.
PyClose(j, code, wrote, driverUnlinkThrows, spawnOk, rmThrows, unlinkThrows) ==
  /\ pyProc[j] \in {"running", "errored"}
  /\ IF pyProc[j] = "errored" THEN code = SpawnErrno /\ ~wrote
                               ELSE code \in ExitCodes
  /\ wrote => audioDir \in dirs
  /\ LET id == scriptId[j]
         au == IF wrote THEN audioFiles \cup {id} ELSE audioFiles
         speech == IF code = 0 /\ id \in au THEN "speech.ok" ELSE "speech.fail"
     IN /\ driverFiles' = IF driverUnlinkThrows THEN driverFiles
                                                ELSE driverFiles \ {id}
        /\ pyProc' = [pyProc EXCEPT ![j] = "closed"]
        /\ audioErrorOutput' = [audioErrorOutput EXCEPT ![j] = << >>]
        /\ IF pyProc[j] = "errored"
           THEN \* the promise was rejected by the 'error' listener
                UNCHANGED << pc, audioFilePath, manimProc, res, unhandled, log,
                             renders, audioFiles >>
           ELSE IF AudioGenerated(code, id \in au)
           THEN /\ audioFilePath' = [audioFilePath EXCEPT ![j] = id]
                /\ IF spawnOk
                   THEN /\ manimProc' = [manimProc EXCEPT ![j] = "running"]
                        /\ pc' = [pc EXCEPT ![j] = "rendering"]
                        /\ log' = Logged(j, << speech, "render.start" >>)
                        /\ audioFiles' = au
                        /\ UNCHANGED << res, unhandled, renders >>
                   ELSE /\ Ends(j, catchOuter(j, renderDir[j], id, renders, au,
                                              << "spawn" >>, rmThrows, unlinkThrows),
                                << speech, "render.start", "render.error" >>)
                        /\ UNCHANGED manimProc
           ELSE /\ Ends(j, catchOuter(j, renderDir[j], audioFilePath[j], renders,
                                      au, AudioGenerationFailed(audioErrorOutput[j]),
                                      rmThrows, unlinkThrows),
                        << speech >>)
                /\ UNCHANGED << audioFilePath, manimProc >>
  /\ UNCHANGED << scriptId, renderDir, output, errorOutput, videoPath,
                  finalVideoPath, ffProc, ffmpegErrorOutput, videos,
                  cleanupRes, analyze, dirs, playerVars >>

\* pythonProcess.stderr.on('data'), lines 178-180. The string it appends to is
\* local to generateAudio's promise: nothing reads it once that is settled.
\* (The stdout string of lines 174-176 is never read.)
PyStderr(j) ==
  /\ pyProc[j] = "running"
  /\ Len(audioErrorOutput[j]) < MaxChunks
  /\ audioErrorOutput' = [audioErrorOutput EXCEPT ![j] = Append(@, "pyerr")]
  /\ UNCHANGED << jobVars, pyProc, manimProc, ffProc, ffmpegErrorOutput,
                  fsVars,
                  cleanupRes, analyze, playerVars >>

\* The speech subprocess could not be started: generateAudio's 'error'
\* listener (lines 199-201) rejects, and the handler's catch runs.
PyError(j, rmThrows, unlinkThrows) ==
  /\ pyProc[j] = "running"
  /\ pyProc' = [pyProc EXCEPT ![j] = "errored"]
  /\ Ends(j, catchOuter(j, renderDir[j], audioFilePath[j], renders, audioFiles,
                        AudioStartFailed, rmThrows, unlinkThrows),
          << "speech.fail" >>)
  /\ UNCHANGED << scriptId, renderDir, audioFilePath, output, errorOutput,
                  videoPath, finalVideoPath, manimProc, ffProc,
                  audioErrorOutput, ffmpegErrorOutput, driverFiles, videos,
                  cleanupRes, analyze, dirs, playerVars >>

\* manim.stdout.on('data'), lines 471-474
ManimStdout(j) ==
  /\ manimProc[j] = "running"
  /\ Len(output[j]) < MaxChunks
  /\ output' = [output EXCEPT ![j] = Append(@, "out")]
  /\ UNCHANGED << pc, scriptId, renderDir, audioFilePath, errorOutput,
                  videoPath, finalVideoPath, res, unhandled, log, procVars,
                  fsVars,
                  cleanupRes, analyze, playerVars >>

\* manim.stderr.on('data'), lines 476-479
ManimStderr(j) ==
  /\ manimProc[j] = "running"
  /\ Len(errorOutput[j]) < MaxChunks
  /\ errorOutput' = [errorOutput EXCEPT ![j] = Append(@, "err")]
  /\ UNCHANGED << pc, scriptId, renderDir, audioFilePath, output, videoPath,
                  finalVideoPath, res, unhandled, log, procVars, fsVars,
                  cleanupRes, analyze, playerVars >>

\* manim.on('error'), lines 558-569: the renderer could not be started.
ManimError(j, rmThrows, unlinkThrows) ==
  /\ manimProc[j] = "running"
  /\ output[j] = << >> /\ errorOutput[j] = << >>
  /\ manimProc' = [manimProc EXCEPT ![j] = "errored"]
  /\ Ends(j, Answered(j, cleanupTemp(renderDir[j], audioFilePath[j], renders,
                                     audioFiles, rmThrows, unlinkThrows),
                      ManimStartFailed),
          << "render.error" >>)
  /\ UNCHANGED << scriptId, renderDir, audioFilePath, output, errorOutput,
                  videoPath, finalVideoPath, pyProc, ffProc, audioErrorOutput,
                  ffmpegErrorOutput, driverFiles, videos,
                  cleanupRes, analyze, dirs, playerVars >>

\* line 500: findVideoFile(renderDir), on its own
LocateVideo(j) ==
  /\ pc[j] = "start" /\ renderDir[j] # NoId
  /\ videoPath' = [videoPath EXCEPT
                     ![j] = findVideoFile(<< >>, renders[renderDir[j]])]
  /\ pc' = [pc EXCEPT ![j] = "located"]
  /\ UNCHANGED << scriptId, renderDir, audioFilePath, output, errorOutput,
                  finalVideoPath, res, unhandled, log, procVars, fsVars,
                  cleanupRes, analyze, playerVars >>

\* lines 524-526
FinalVideoPath(renderId, vp) ==
  [root |-> "videos", id |-> renderId,
   file |-> ReplaceFirstMp4(Basename(vp)) \o << "_with_audio", MP4 >>]

\* a URL built from the raw video's name, its extension left in
VideoUrlKeepsExtension(renderId, vp) ==
  [route |-> "/videos", id |-> renderId,
   file |-> Basename(vp) \o << "_with_audio", MP4 >>]

\* line 530
VideoUrl(renderId, vp) ==
  [route |-> "/videos", id |-> renderId,
   file |-> ReplaceFirstMp4(Basename(vp)) \o << "_with_audio", MP4 >>]

\* manim.on('close'), lines 481-528 up to the await of combineVideoAndAudio,
\* or to the return or catch that ends it. out: what the renderer left in
\* its working directory.
ManimClose(j, code, out, mkdirOk, spawnOk, rmThrows, unlinkThrows, rmThrows2, unlinkThrows2) ==
  /\ manimProc[j] \in {"running", "errored"}
  /\ IF manimProc[j] = "errored" THEN code = SpawnErrno /\ out = << >>
                                  ELSE code \in ExitCodes
  /\ manimProc' = [manimProc EXCEPT ![j] = "closed"]
  \* fs.mkdirSync(publicDir, { recursive: true }) makes videos/ as well
  /\ dirs' = IF /\ ~ManimExitFailed(code) /\ mkdirOk
                /\ findVideoFile(<< >>,
                      IF manimProc[j] = "running" /\ renders[renderDir[j]].exists
                      THEN DirOf(<< File(AnimationPy) >> \o out)
                      ELSE renders[renderDir[j]]) # NoPath
             THEN dirs \cup {Dirname, videosDir} ELSE dirs
  /\ LET rd == renderDir[j]
         renderId == scriptId[j]
         rs == IF manimProc[j] = "running" /\ renders[rd].exists
               THEN [renders EXCEPT ![rd] = DirOf(<< File(AnimationPy) >> \o out)]
               ELSE renders
         first == cleanupTemp(rd, audioFilePath[j], rs, audioFiles,
                              rmThrows, unlinkThrows)
         vp == findVideoFile(<< >>, rs[rd])
         published == mkdirSync(videos, renderId)
         render == IF manimProc[j] = "errored" THEN "render.closed"
                   ELSE IF code = 0 THEN "render.ok" ELSE "render.fail"
     IN IF ManimExitFailed(code)
        THEN /\ Ends(j, Answered(j, first,
                                 ManimFailed(output[j], errorOutput[j])),
                     << render >>)
             /\ UNCHANGED << videoPath, finalVideoPath, ffProc, videos >>
        ELSE IF vp = NoPath
        THEN /\ IF first.threw
                THEN Ends(j, catchClose(j, first.renders, first.audioFiles,
                                        << "unlink" >>, rmThrows2, unlinkThrows2),
                          << render, "locate.fail", "cleanup.throw" >>)
                ELSE Ends(j, Answered(j, first,
                                      NoVideoGenerated(output[j], errorOutput[j])),
                          << render, "locate.fail" >>)
             /\ UNCHANGED << videoPath, finalVideoPath, ffProc, videos >>
        ELSE IF ~mkdirOk
        THEN /\ Ends(j, catchClose(j, rs, audioFiles, << "mkdir" >>,
                                   rmThrows, unlinkThrows),
                     << render, "locate.ok", "publish.fail" >>)
             /\ UNCHANGED << videoPath, finalVideoPath, ffProc, videos >>
        ELSE /\ videos' = published
             /\ videoPath' = [videoPath EXCEPT ![j] = vp]
             /\ finalVideoPath' =
                  [finalVideoPath EXCEPT ![j] = FinalVideoPath(renderId, vp)]
             /\ IF spawnOk
                THEN /\ ffProc' = [ffProc EXCEPT ![j] = "running"]
                     /\ pc' = [pc EXCEPT ![j] = "muxing"]
                     /\ log' = Logged(j, << render, "locate.ok",
                                            "publish", "mux.start" >>)
                     /\ renders' = rs
                     /\ UNCHANGED << res, unhandled, audioFiles >>
                ELSE /\ Ends(j, catchClose(j, rs, audioFiles, << "spawn" >>,
                                           rmThrows, unlinkThrows),
                             << render, "locate.ok", "publish",
                                "mux.start", "mux.fail" >>)
                     /\ UNCHANGED ffProc
  /\ UNCHANGED << scriptId, renderDir, audioFilePath, output, errorOutput,
                  pyProc, audioErrorOutput, ffmpegErrorOutput, driverFiles,
                  cleanupRes, analyze, playerVars >>

\* ffmpeg.stderr.on('data'), lines 229-231 (the stdout string of lines 225-227
\* is never read)
FfStderr(j) ==
  /\ ffProc[j] = "running"
  /\ Len(ffmpegErrorOutput[j]) < MaxChunks
  /\ ffmpegErrorOutput' = [ffmpegErrorOutput EXCEPT ![j] = Append(@, "fferr")]
  /\ UNCHANGED << jobVars, pyProc, manimProc, ffProc, audioErrorOutput,
                  fsVars,
                  cleanupRes, analyze, playerVars >>

\* The file ffmpeg writes at path f, when the directory it lies in exists.
WithFile(tree, f) ==
  IF tree[f.id].exists
     /\ \A i \in 1..Len(tree[f.id].items) : tree[f.id].items[i].name # f.file
  THEN [tree EXCEPT ![f.id] = DirOf(Append(@.items, File(f.file)))]
  ELSE tree

\* The muxer closes: combineVideoAndAudio's 'close' listener (lines 233-241)
\* settles the promise, and the 'close' listener of the renderer goes on in the
\* same run: lines 530-540, or its catch (lines 542-555). wrote: ffmpeg left
\* its output file. A muxer whose output directory was deleted while it ran
\* leaves no file, and exits with code 0 all the same when it had opened the
\* file before.
FfClose(j, code, wrote, rmThrows, unlinkThrows, rmThrows2, unlinkThrows2) ==
  /\ ffProc[j] \in {"running", "errored"}
  /\ IF ffProc[j] = "errored" THEN code = SpawnErrno /\ ~wrote
                               ELSE code \in ExitCodes /\ (code = 0 => wrote)
  /\ ffProc' = [ffProc EXCEPT ![j] = "closed"]
  /\ ffmpegErrorOutput' = [ffmpegErrorOutput EXCEPT ![j] = << >>]
  /\ videos' = IF wrote THEN WithFile(videos, finalVideoPath[j]) ELSE videos
  /\ LET first == cleanupTemp(renderDir[j], audioFilePath[j], renders,
                              audioFiles, rmThrows, unlinkThrows)
         mux == IF code = 0 THEN "mux.ok" ELSE "mux.fail"
     IN IF ffProc[j] = "errored"
        THEN UNCHANGED << pc, res, unhandled, log, renders, audioFiles >>
        ELSE IF FfmpegSucceeded(code)
        THEN IF first.threw
             THEN Ends(j, catchClose(j, first.renders, first.audioFiles,
                                     << "unlink" >>, rmThrows2, unlinkThrows2),
                       << mux, "cleanup.throw" >>)
             ELSE Ends(j, Answered(j, first,
                                   VideoReady(VideoUrl(scriptId[j], videoPath[j]))),
                       << mux >>)
        ELSE Ends(j, catchClose(j, renders, audioFiles,
                                FfmpegFailed(code, ffmpegErrorOutput[j]),
                                rmThrows, unlinkThrows),
                  << mux >>)
  /\ UNCHANGED << scriptId, renderDir, audioFilePath, output, errorOutput,
                  videoPath, finalVideoPath, pyProc, manimProc,
                  audioErrorOutput, driverFiles,
                  cleanupRes, analyze, dirs, playerVars >>

\* The muxer could not be started: combineVideoAndAudio's 'error' listener
\* (lines 243-245) rejects, and the catch of lines 542-555 runs.
FfError(j, rmThrows, unlinkThrows) ==
  /\ ffProc[j] = "running"
  /\ ffProc' = [ffProc EXCEPT ![j] = "errored"]
  /\ Ends(j, catchClose(j, renders, audioFiles, FfmpegStartFailed,
                        rmThrows, unlinkThrows),
          << "mux.fail" >>)
  /\ UNCHANGED << scriptId, renderDir, audioFilePath, output, errorOutput,
                  videoPath, finalVideoPath, pyProc, manimProc,
                  audioErrorOutput, ffmpegErrorOutput, driverFiles, videos,
                  cleanupRes, analyze, dirs, playerVars >>

\* ------------------------------------------------------------ cleanup endpoints
\* The cleanup endpoints keep nothing of a request once it is answered.
\* observed: the model keeps the request and its response in cleanupRes.

\* lines 609-614: deletedCount is incremented once for each directory listed
deletedCount(videoDirectories) == Cardinality(videoDirectories)

\* req.params.videoId: one segment of the URL, decoded, so that it may hold
\* "/" (sent as %2F); here split at "/". The ids of jobs, and names that lead
\* out of videos/.
IdVideoIds == {<< IdName(i) >> : i \in Ids}
VideoIds ==
  IdVideoIds \cup {<< "." >>, << ".." >>, << "..", "renders" >>,
                   << "..", "audio" >>}

\* the job id whose published directory the path is, or NoId
PublishedId(path) ==
  IF \E i \in Ids : path = Append(videosDir, IdName(i))
  THEN CHOOSE i \in Ids : path = Append(videosDir, IdName(i))
  ELSE NoId

\* fs.existsSync(path), for the directories of the model
existsSync(path) ==
  IF PublishedId(path) # NoId THEN videos[PublishedId(path)].exists
  ELSE path \in dirs

\* DELETE /api/cleanup/:videoId, lines 586-601. fs.rmSync(videoDir, {recursive:
\* true, force: true}) removes whatever lies under videoDir.
CleanupVideo(videoId, rmThrows, observed) ==
  LET videoDir == pathJoin(videosDir, videoId)
      found == existsSync(videoDir)
      gone == found /\ ~rmThrows
      id == PublishedId(videoDir)
  IN /\ videos' =
          IF id # NoId THEN deleteDirectory(videos, id, rmThrows)
          ELSE IF gone /\ Under(videosDir, videoDir)
               THEN [i \in Ids |-> NoDir] ELSE videos
     /\ renders' = IF gone /\ Under(rendersDir, videoDir)
                   THEN [i \in Ids |-> NoDir] ELSE renders
     /\ audioFiles' = IF gone /\ Under(audioDir, videoDir) THEN {}
                                                             ELSE audioFiles
     /\ driverFiles' = IF gone /\ Under(audioDir, videoDir) THEN {}
                                                              ELSE driverFiles
     /\ dirs' = IF gone THEN {d \in dirs : ~Under(d, videoDir)} ELSE dirs
     /\ cleanupRes' =
          IF ~observed THEN cleanupRes
          ELSE IF found
               THEN CleanupResponse("cleanup", id, videoDir, 200, 0)
               ELSE CleanupResponse("cleanup", id, videoDir, 404, 0)
     /\ UNCHANGED << jobVars, procVars, analyze, playerVars >>

\* DELETE /api/cleanup-all, lines 604-622. failing: the directories whose
\* fs.rmSync throws. fs.readdirSync throws when videos/ is gone, and the
\* handler's catch answers 500.
CleanupAll(failing, observed) ==
  LET videoDirectories == {i \in Ids : videos[i].exists}
      after == [i \in Ids |->
                  IF i \in videoDirectories
                  THEN deleteDirectory(videos, i, i \in failing)[i]
                  ELSE videos[i]]
  IN /\ videos' = IF videosDir \in dirs THEN after ELSE videos
     /\ cleanupRes' =
          IF ~observed THEN cleanupRes
          ELSE IF videosDir \in dirs
               THEN CleanupResponse("cleanup-all", NoId, videosDir, 200,
                                    deletedCount(videoDirectories))
               ELSE CleanupResponse("cleanup-all", NoId, videosDir, 500, 0)
     /\ UNCHANGED << jobVars, procVars, renders, audioFiles, driverFiles,
                     dirs, analyze, playerVars >>

\* ------------------------------------------------------------ specifications
Approaches == {"missing", "noCode", "given"}

\* One step of request j. Faults: whether a delete (fs.rmSync, fs.unlinkSync)
\* may throw.
JobStep(j, Faults) ==
  \/ \E a \in Approaches : Receive(j, a)
  \/ \E ok \in BOOLEAN : NarrationDone(j, ok)
  \/ \E ok \in BOOLEAN, prep \in PrepOutcomes, rmT \in Faults :
       ScriptDone(j, ok, prep, rmT)
  \/ \E code \in ExitCodes \cup {SpawnErrno}, wrote \in BOOLEAN,
        spawnOk \in BOOLEAN, dT \in Faults, rmT \in Faults, ulT \in Faults :
       PyClose(j, code, wrote, dT, spawnOk, rmT, ulT)
  \/ PyStderr(j)
  \/ \E rmT \in Faults, ulT \in Faults : PyError(j, rmT, ulT)
  \/ ManimStdout(j)
  \/ ManimStderr(j)
  \/ \E rmT \in Faults, ulT \in Faults : ManimError(j, rmT, ulT)
  \/ \E code \in ExitCodes \cup {SpawnErrno}, out \in ManimOutputs,
        mkdirOk \in BOOLEAN, spawnOk \in BOOLEAN,
        rmT \in Faults, ulT \in Faults, rmT2 \in Faults, ulT2 \in Faults :
       ManimClose(j, code, out, mkdirOk, spawnOk, rmT, ulT, rmT2, ulT2)
  \/ \E code \in ExitCodes \cup {SpawnErrno}, wrote \in BOOLEAN,
        rmT \in Faults, ulT \in Faults, rmT2 \in Faults, ulT2 \in Faults :
       FfClose(j, code, wrote, rmT, ulT, rmT2, ulT2)
  \/ FfStderr(j)
  \/ \E rmT \in Faults, ulT \in Faults : FfError(j, rmT, ulT)

\* One request to a cleanup endpoint, its videoId one of Names.
CleanupStep(Faults, observed, Names) ==
  \/ \E videoId \in Names, rmT \in Faults : CleanupVideo(videoId, rmT, observed)
  \/ \E failing \in SUBSET Ids :
       /\ (Faults = {FALSE}) => failing = {}
       /\ CleanupAll(failing, observed)

AnalyzeStep ==
  \/ \E question \in Questions : AnalyzeReceive(question)
  \/ \E rejected \in BOOLEAN, text \in ModelTexts : AnalyzeDone(rejected, text)

\* Two requests in flight together; deletes succeed, and the cleanup
\* endpoint is asked for job ids only.
Next == (\E j \in Jobs : JobStep(j, {FALSE})) \/ CleanupStep({FALSE}, FALSE, IdVideoIds)
Spec == Init /\ [][Next]_vars

\* One request, and deletes may throw.
NextFsFault == JobStep(1, BOOLEAN) \/ CleanupStep(BOOLEAN, TRUE, IdVideoIds)
SpecFsFault == Init /\ [][NextFsFault]_vars

\* Every started subprocess emits its close or error event and every network
\* call completes: a request that has a step to take takes it. No step of a
\* request waits on another request, so progress is checked for one request,
\* with the cleanup endpoints served in between.
LiveNext == JobStep(1, {FALSE}) \/ CleanupStep({FALSE}, FALSE, IdVideoIds)
LiveSpec == Init /\ [][LiveNext]_vars /\ WF_vars(JobStep(1, {FALSE}))

\* One POST /api/getAnimation and one POST /api/analyze request, with the
\* cleanup endpoints' responses kept; deletes succeed.
NextOne == JobStep(1, {FALSE}) \/ CleanupStep({FALSE}, TRUE, IdVideoIds) \/ AnalyzeStep
SpecOne == Init /\ [][NextOne]_vars

\* One request, and the cleanup endpoint asked for any videoId of VideoIds;
\* deletes succeed.
NextAnyVideoId == JobStep(1, {FALSE}) \/ CleanupStep({FALSE}, TRUE, VideoIds)
SpecAnyVideoId == Init /\ [][NextAnyVideoId]_vars

\* findVideoFile alone, over the trees of Trees.
NextLocate == \E j \in Jobs : LocateVideo(j)
SpecLocate == InitLocate /\ [][NextLocate]_vars

\* cleanJsonResponse alone, over the texts of Texts.
NextClean == CleanText
SpecClean == InitClean /\ [][NextClean]_vars

\* The player alone: the component rendered for the approaches of Titles,
\* its requests answered in any way a server or the network can.
NextPlayer ==
  \/ \E title \in Titles : useEffect(title)
  \/ \E title \in Titles, r \in FetchOutcomes : FetchSettled(title, r)
  \/ handleError
  \/ retryLoading
SpecPlayer == InitPlayer /\ [][NextPlayer]_vars

\* The player whose approach prop never changes: the effect runs again for
\* the approach the component mounted with only.
NextSameApproach ==
  \/ useEffect(approachTitle)
  \/ \E r \in FetchOutcomes : FetchSettled(approachTitle, r)
  \/ handleError
  \/ retryLoading
SpecSameApproach == InitPlayer /\ [][NextSameApproach]_vars

\* ------------------------------------------------------------ observations
HasEvent(j, e) == \E i \in 1..Len(log[j]) : log[j][i] = e

\* the events that report a stage failure
FailEvents == {"narration.fail", "script.fail", "mkdir.fail", "write.fail",
               "speech.fail", "render.error", "render.fail", "locate.fail",
               "publish.fail", "mux.fail"}
Failed(j) == \E i \in 1..Len(log[j]) : log[j][i] \in FailEvents

Responded(j) == res[j] # << >>
\* Failed or Cleaned: the request's pipeline has ended
Ended(j) == pc[j] = "done"

C2_AudioGoneWhenEnded ==
  \A j \in Jobs :
    (Ended(j) /\ scriptId[j] # NoId) => scriptId[j] \notin audioFiles

BaseName(name) == SubSeq(name, 1, Len(name) - 1)

JobState(k) == << pc[k], log[k], output[k], errorOutput[k], pyProc[k],
                  manimProc[k], ffProc[k] >>
InFlight(k) == pc[k] \notin {"start", "done"} /\ scriptId[k] # NoId

\* two requests never hold the same job id
DistinctJobs ==
  \A j, k \in Jobs :
    (j # k /\ scriptId[j] # NoId /\ scriptId[k] # NoId) =>
      /\ scriptId[j] # scriptId[k]
      /\ (renderDir[j] # NoId /\ renderDir[k] # NoId
            => renderDir[j] # renderDir[k])
      /\ (audioFilePath[j] # NoId /\ audioFilePath[k] # NoId
            => audioFilePath[j] # audioFilePath[k])
      /\ (finalVideoPath[j] # NoFile /\ finalVideoPath[k] # NoFile
            => finalVideoPath[j].id # finalVideoPath[k].id)

\* a step that request k does not take leaves k's working directory and audio
\* file as they are while k is in flight
NoForeignDelete ==
  \A k \in Jobs :
    (InFlight(k) /\ JobState(k)' = JobState(k)) =>
      /\ renders'[scriptId[k]] = renders[scriptId[k]]
      /\ (scriptId[k] \in audioFiles <=> scriptId[k] \in audioFiles')

\* C5: two concurrent requests have distinct job ids, working directories,
\* audio files and published directories, and no cleanup of one removes the
\* working directory or the audio file of the other while that one is in
\* flight.
C5_ConcurrentJobsIsolated == []DistinctJobs /\ [][NoForeignDelete]_vars

\* one request has ended after creating and removing its working directory
\* while the other is rendering, its working directory and audio file in place
C5_Witness ==
  \E j, k \in Jobs :
    /\ j # k
    /\ Ended(j) /\ HasEvent(j, "mkdir") /\ HasEvent(j, "render.start")
    /\ pc[k] = "rendering"
    /\ renders[scriptId[k]].exists /\ scriptId[k] \in audioFiles

\* ------------------------------------------------------------ C6
Answered500(j) == Responded(j) /\ res[j][1].status = 500

StageEvents == {"narration.start", "narration.ok", "script.start", "script.ok",
                "mkdir", "write", "speech.start", "speech.ok", "render.start",
                "render.ok", "locate.ok", "publish", "mux.start", "mux.ok"}

\* C7: within one request, once a stage has failed no later stage is started:
\* nothing is created or spawned after a narration or script failure, no
\* renderer after a speech failure, no muxer and no published directory after
\* a renderer or artifact failure.
C7_NoStageAfterFailure ==
  \A j \in Jobs :
    /\ \A i, k \in 1..Len(log[j]) :
         (i < k /\ log[j][i] \in FailEvents) => log[j][k] \notin StageEvents
    /\ (HasEvent(j, "narration.fail") \/ HasEvent(j, "script.fail")) =>
         /\ renderDir[j] = NoId
         /\ scriptId[j] # NoId =>
              (~renders[scriptId[j]].exists /\ ~videos[scriptId[j]].exists
               /\ scriptId[j] \notin audioFiles \cup driverFiles)
         /\ pyProc[j] = "none" /\ manimProc[j] = "none" /\ ffProc[j] = "none"
    /\ HasEvent(j, "speech.fail") =>
         manimProc[j] = "none" /\ ffProc[j] = "none"
    /\ (HasEvent(j, "render.error") \/ HasEvent(j, "render.fail")
        \/ HasEvent(j, "locate.fail")) =>
         ffProc[j] = "none" /\ ~videos[scriptId[j]].exists

\* each kind of failure has happened to some request: the renderer exited
\* with code 1 in one, the speech subprocess failed in the other
C7_Witness ==
  \E j, k \in Jobs :
    /\ HasEvent(j, "render.fail") /\ Ended(j)
    /\ HasEvent(k, "speech.fail") /\ Ended(k)

\* ------------------------------------------------------------ C8
\* the stages of a request that succeeds, in order
Canon == << "narration.start", "narration.ok", "script.start", "script.ok",
            "mkdir", "write", "speech.start", "speech.ok", "render.start",
            "render.ok", "locate.ok", "publish", "mux.start", "mux.ok",
            "cleanup", "respond" >>

\* C8: the stages of a request occur in the order narration, script, working
\* directory and script file, speech, renderer, artifact location, publish
\* and mux, cleanup, response, each starting only when the one before it has
\* succeeded; the renderer is not spawned before the speech subprocess has
\* closed, nor the muxer before the renderer closed with code 0 and a video
\* was located.
C8_StagesInOrder ==
  \A j \in Jobs :
    /\ \A k \in 1..Len(log[j]) :
         log[j][k] \in StageEvents =>
           /\ k <= Len(Canon) /\ log[j][k] = Canon[k]
           /\ k > 1 => log[j][k - 1] = Canon[k - 1]
    /\ \A k \in 1..Len(log[j]) :
         (log[j][k] = "respond" /\ k > 1) => log[j][k - 1] = "cleanup"
    /\ manimProc[j] # "none" =>
         pyProc[j] = "closed" /\ HasEvent(j, "speech.ok")
    /\ ffProc[j] # "none" =>
         /\ manimProc[j] = "closed" /\ HasEvent(j, "render.ok")
         /\ videoPath[j] # NoPath
    /\ (Responded(j) /\ res[j][1].status = 200) => log[j] = Canon

\* a request has gone through every stage and been answered
C8_Witness ==
  \E j \in Jobs : log[j] = Canon /\ Responded(j)

\* ------------------------------------------------------------ C9
\* C9: a delete that throws during cleanup is swallowed: the request is still
\* answered, with the response its pipeline outcome determines.
C9_CleanupFailureSwallowed ==
  \A j \in Jobs :
    Ended(j) =>
      /\ Responded(j)
      /\ Failed(j) => res[j][1].status = 500
      /\ HasEvent(j, "mux.ok") => res[j][1].status = 200

C11_AudioResolvesOnlyWithFile ==
  \A j \in Jobs :
    /\ audioFilePath[j] # NoId <=> HasEvent(j, "speech.ok")
    /\ audioFilePath[j] # NoId => audioFilePath[j] = scriptId[j]
    /\ (audioFilePath[j] # NoId /\ ~Ended(j)) => audioFilePath[j] \in audioFiles
    /\ HasEvent(j, "speech.fail") =>
         /\ ~HasEvent(j, "speech.ok")
         /\ res[j] # << >>
         /\ res[j][1].status = 500
         /\ res[j][1].error = "Failed to generate animation with audio"
         /\ manimProc[j] = "none"

\* the speech subprocess exited with code 0, its file in place, and the
\* renderer is now running with that file
C11_Witness ==
  \E j \in Jobs :
    /\ HasEvent(j, "speech.ok") /\ pyProc[j] = "closed"
    /\ pc[j] = "rendering"
    /\ audioFilePath[j] \in audioFiles

\* ------------------------------------------------------------ C12
\* C12: when generateAudio's result is delivered after the driver file
\* audio/<jobId>_script.py was written (success, non-zero exit, missing output
\* file, failure to spawn), the driver file does not exist, no delete having
\* failed.
C12_DriverGoneWhenDelivered ==
  \A j \in Jobs :
    (HasEvent(j, "speech.ok") \/ HasEvent(j, "speech.fail"))
      => scriptId[j] \notin driverFiles

\* ------------------------------------------------------------ C13
RECURSIVE Matches(_, _)
\* the paths of the files under the listing items (of the directory dir) whose
\* names end in ".mp4"
Matches(dir, items) ==
  UNION {IF items[i].isFile
         THEN IF EndsWithMp4(items[i].name) THEN {Append(dir, items[i].name)}
                                             ELSE {}
         ELSE Matches(Append(dir, items[i].name), items[i].items)
         : i \in 1..Len(items)}

RECURSIVE ListingAt(_, _)
\* the listing of the directory at path under the listing items
ListingAt(items, path) ==
  IF path = << >> THEN items
  ELSE LET i == CHOOSE i \in 1..Len(items) : items[i].name = path[1]
       IN ListingAt(items[i].items, Tail(path))

IndexOf(items, name) == CHOOSE i \in 1..Len(items) : items[i].name = name

\* Of two matching files r and m under items, r is the one a depth-first
\* search meets first: where their paths part, r is a file of that directory
\* listed before m, or a file while m lies in a subdirectory, or lies in a
\* subdirectory listed before the one m lies in.
MetFirst(items, r, m) ==
  LET k == Min({i \in 1..Len(r) : i > Len(m) \/ r[i] # m[i]})
      here == ListingAt(items, SubSeq(r, 1, k - 1))
      ri == IndexOf(here, r[k])
      mi == IndexOf(here, m[k])
  IN IF Len(r) = k THEN (Len(m) = k => ri < mi)
                   ELSE Len(m) > k /\ ri < mi

Located(j) == pc[j] = "located"

\* C13 as stated: findVideoFile returns a matching file of minimal depth among
\* all the matching files of the tree, whatever the tree and the order of its
\* listings, and the not-found result for a tree with no matching file.
C13_ShallowestMatch ==
  \A j \in Jobs :
    Located(j) =>
      LET all == Matches(<< >>, renders[renderDir[j]].items)
      IN /\ videoPath[j] = NoPath <=> all = {}
         /\ videoPath[j] # NoPath =>
              /\ videoPath[j] \in all
              /\ \A m \in all : Len(videoPath[j]) <= Len(m)

\* C13, amended: findVideoFile returns the matching file a depth-first search
\* meets first when it looks at the files of a directory, in listing order,
\* before it goes into its subdirectories, in listing order; and the
\* not-found result for a tree with no matching file.
C13_FirstMatchDepthFirst ==
  \A j \in Jobs :
    Located(j) =>
      LET items == renders[renderDir[j]].items
          all == Matches(<< >>, items)
      IN /\ videoPath[j] = NoPath <=> all = {}
         /\ videoPath[j] # NoPath =>
              /\ videoPath[j] \in all
              /\ \A m \in all \ {videoPath[j]} : MetFirst(items, videoPath[j], m)

\* a/video.mp4 was returned from a tree that also holds a/b/video.mp4, the
\* subdirectory b listed before the file
C13_Witness ==
  \E j \in Jobs :
    /\ Located(j)
    /\ videoPath[j] = << <<"a">>, <<"video", MP4>> >>
    /\ << <<"a">>, <<"b">>, <<"video", MP4>> >>
         \in Matches(<< >>, renders[renderDir[j]].items)
    /\ LET a == ListingAt(renders[renderDir[j]].items, << <<"a">> >>)
       IN IndexOf(a, <<"b">>) < IndexOf(a, <<"video", MP4>>)

\* ------------------------------------------------------------ C14
\* the file the request's muxer was asked to write exists
Published(j) ==
  /\ finalVideoPath[j] # NoFile
  /\ videos[finalVideoPath[j].id].exists
  /\ \E i \in 1..Len(videos[finalVideoPath[j].id].items) :
       videos[finalVideoPath[j].id].items[i] = File(finalVideoPath[j].file)

\* a request to a cleanup endpoint is all that leaves every other request and
\* every subprocess as it was
CleanupRequest ==
  << jobVars, procVars, analyze >>' = << jobVars, procVars, analyze >>

\* no two requests hand their muxers the same output path
DistinctArtifacts ==
  \A j, k \in Jobs :
    (j # k /\ finalVideoPath[j] # NoFile) => finalVideoPath[j] # finalVideoPath[k]

\* C14: a published file videos/<jobId>/<basename>_with_audio.mp4 keeps
\* existing through every step that is not a DELETE /cleanup/<jobId> or
\* DELETE /cleanup-all request: the cleanup of its own request and the stages
\* and cleanups of the other request leave it in place, and no other request
\* writes to its path.
C14_PublishedKept ==
  /\ []DistinctArtifacts
  /\ [][~CleanupRequest => \A j \in Jobs : Published(j) => Published(j)']_vars

\* both requests have published and ended, each file in place
C14_Witness ==
  \E j, k \in Jobs :
    /\ j # k
    /\ Published(j) /\ Ended(j) /\ res[j] # << >> /\ res[j][1].status = 200
    /\ Published(k) /\ Ended(k) /\ HasEvent(k, "cleanup")

\* ------------------------------------------------------------ C15
\* the step is a DELETE /api/cleanup/:videoId request, answered
CleanupVideoRequest == CleanupRequest /\ cleanupRes'.route = "cleanup"

\* C15: DELETE /cleanup/:videoId: when videos/<videoId> exists, after a
\* success response it no longer exists; when it does not exist the response
\* is 404 and the filesystem is unchanged; so the same request repeated after
\* a successful one is answered 404.
C15_CleanupVideoRemoves ==
  [][CleanupVideoRequest =>
       LET v == cleanupRes'.videoId
       IN /\ videos[v].exists =>
               (cleanupRes'.status = 200 => ~videos'[v].exists)
          /\ ~videos[v].exists =>
               (cleanupRes'.status = 404 /\ fsVars' = fsVars)
          /\ (cleanupRes.route = "cleanup" /\ cleanupRes.status = 200
              /\ cleanupRes.videoId = v) => cleanupRes'.status = 404]_vars

\* ------------------------------------------------------------ C16
\* the step is a DELETE /api/cleanup-all request, answered
CleanupAllRequest == CleanupRequest /\ cleanupRes'.route = "cleanup-all"

\* C16: DELETE /cleanup-all: after a success response no published directory
\* that existed when the request started still exists, and the count in the
\* response is the number of published directories this request removed.
C16_CleanupAllCounts ==
  [][(CleanupAllRequest /\ cleanupRes'.status = 200) =>
       /\ \A i \in Ids : videos[i].exists => ~videos'[i].exists
       /\ cleanupRes'.deletedCount =
            Cardinality({i \in Ids : videos[i].exists /\ ~videos'[i].exists})]_vars

\* ------------------------------------------------------------ C17
\* String.prototype.includes, on sequences of pieces
Contains(text, part) ==
  \E i \in 0..(Len(text) - Len(part)) : SubSeq(text, i + 1, i + Len(part)) = part

\* C17: the response to a request that fails because an external process
\* failed carries the stderr captured from that process: the speech
\* subprocess's and the muxer's in details, the renderer's in errorOutput.
C17_StderrInFailureResponse ==
  [][\A j \in Jobs :
       /\ (pyProc[j] = "running" /\ pyProc'[j] = "closed"
           /\ audioFilePath'[j] = NoId) =>
            /\ res'[j] # << >>
            /\ res'[j][1].status = 500
            /\ Contains(res'[j][1].details, audioErrorOutput[j])
       /\ (manimProc[j] = "running" /\ manimProc'[j] = "closed"
           /\ ffProc'[j] = "none" /\ pc'[j] = "done"
           /\ log'[j][Len(log'[j]) - 2] \in {"render.fail", "locate.fail"}) =>
            /\ res'[j] # << >>
            /\ res'[j][1].status = 500
            /\ res'[j][1].errorOutput = errorOutput[j]
       /\ (ffProc[j] = "running" /\ ffProc'[j] = "closed"
           /\ res'[j] # << >> /\ res'[j][1].status # 200) =>
            /\ res'[j][1].status = 500
            /\ Contains(res'[j][1].details, ffmpegErrorOutput[j])
            /\ res'[j][1].errorOutput = errorOutput[j]]_vars

\* a request answered 500 after its speech subprocess wrote to stderr and
\* exited without success, that text in the response
C17_Witness ==
  \E j \in Jobs :
    /\ HasEvent(j, "speech.fail") /\ pyProc[j] = "closed"
    /\ res[j] # << >>
    /\ res[j][1].details = AudioGenerationFailed(<< "pyerr" >>)

\* ------------------------------------------------------------ C18
\* what a subprocess may have written to stderr, as the listener holds it
Captured(chunk) == {[i \in 1..n |-> chunk] : n \in 0..MaxChunks}

NothingStarted(j) ==
  /\ res[j][1].status = 400
  /\ pc[j] = "done" /\ log[j] = << "respond" >>
  /\ scriptId[j] = NoId /\ renderDir[j] = NoId /\ audioFilePath[j] = NoId
  /\ pyProc[j] = "none" /\ manimProc[j] = "none" /\ ffProc[j] = "none"

\* C19: a POST /getAnimation without an approach is answered 400 and does
\* nothing else: no text generation, no job id, no subprocess, and no file or
\* directory created or deleted.
C19_NoApproachNoEffect ==
  /\ [](\A j \in Jobs :
         /\ res[j] = << ApproachRequired >> => NothingStarted(j)
         /\ log[j] = << "respond" >> => res[j] = << ApproachRequired >>)
  /\ [][\A j \in Jobs :
          (pc[j] = "start" /\ res'[j] = << ApproachRequired >>) =>
            /\ fsVars' = fsVars
            /\ procVars' = procVars
            /\ scriptId' = scriptId]_vars

\* one request was answered 400 while the other is rendering, its working
\* directory and audio file in place
C19_Witness ==
  \E j, k \in Jobs :
    /\ res[j] = << ApproachRequired >> /\ res[j][1].status = 400
    /\ pc[k] = "rendering"
    /\ renders[scriptId[k]].exists /\ scriptId[k] \in audioFiles

\* ------------------------------------------------------------ C20
\* what is left of a text without its fences and its white space
Payload(text) ==
  SelectSeq(text, LAMBDA piece : piece \notin Whitespace \cup {Tick, Json})

\* C20: POST /analyze without a question is answered 400 and the text
\* generator is not called; when the generation fails or its text is not a
\* JSON value (fences and white space aside) the answer is 500 with an error;
\* otherwise it is the question with the parsed approaches; exactly one
\* response is sent in each case, and no step of the request changes the
\* filesystem.
C20_AnalyzeAnswers ==
  /\ [](/\ Len(analyze.res) = (IF analyze.pc = "done" THEN 1 ELSE 0)
        /\ analyze.pc = "done" =>
             IF analyze.question = NoQuestion
             THEN /\ analyze.res[1].status = 400
                  /\ analyze.res[1].error # ""
                  /\ analyze.generated = 0
             ELSE /\ analyze.generated = 1
                  /\ IF ~analyze.rejected /\ Len(Payload(analyze.text)) = 1
                        /\ Payload(analyze.text)[1] \in JsonValues
                     THEN /\ analyze.res[1].status = 200
                          /\ analyze.res[1].question = analyze.question
                          /\ analyze.res[1].approaches = Payload(analyze.text)[1]
                     ELSE /\ analyze.res[1].status = 500
                          /\ analyze.res[1].error # "")
  /\ [][analyze' # analyze => fsVars' = fsVars]_vars

\* the request was answered with the approaches of a fenced text, while the
\* working directory of a POST /getAnimation request is on disk
C20_Witness ==
  /\ analyze.pc = "done"
  /\ analyze.res[1].status = 200
  /\ StartsWith(analyze.text, FenceJson)
  /\ \E j \in Jobs : scriptId[j] # NoId /\ renders[scriptId[j]].exists

\* ------------------------------------------------------------ C21
\* a fence marker occurs in the text: three backticks in a row
HasFence(text) ==
  \E i \in 1..Len(text) : StartsWith(SubSeq(text, i, Len(text)), Fence)

Blank(text) == \A i \in 1..Len(text) : text[i] \in Whitespace

\* The payloads the text wraps in a fence of the given kind, white space
\* around the fences or not. A payload holds no fence marker and neither
\* begins nor ends with a backtick, and the payload of a plain fence does not
\* begin with the word json (the fence would then be a tagged one).
Wrapped(text, fence) ==
  LET n == Len(text)
      cuts == {c \in (0..n) \X (0..n) :
                 /\ c[1] + Len(fence) + Len(Fence) + c[2] <= n
                 /\ Blank(SubSeq(text, 1, c[1]))
                 /\ Blank(SubSeq(text, n - c[2] + 1, n))
                 /\ StartsWith(SubSeq(text, c[1] + 1, n), fence)
                 /\ SubSeq(text, n - c[2] - Len(Fence) + 1, n - c[2]) = Fence}
  IN {payload \in {SubSeq(text, c[1] + Len(fence) + 1, n - c[2] - Len(Fence)) :
                     c \in cuts} :
        /\ ~HasFence(payload)
        /\ payload # << >> =>
             (Head(payload) # Tick /\ payload[Len(payload)] # Tick)
        /\ (fence = Fence /\ payload # << >>) => Head(payload) # Json}

\* C21: cleanJsonResponse: of a payload wrapped in a json fence or in a plain
\* fence it returns the trimmed payload, no fence marker in it; a text with
\* no fence marker it returns trimmed and otherwise unchanged; and applied to
\* its own result it returns that result.
C21_CleanJsonResponse ==
  analyze.pc = "cleaned" =>
    LET text == analyze.text
        cleaned == analyze.cleanedText
    IN /\ \A fence \in {FenceJson, Fence} :
            \A payload \in Wrapped(text, fence) :
              cleaned = Trim(payload) /\ ~HasFence(cleaned)
       /\ ~HasFence(text) => cleaned = Trim(text)
       /\ cleanJsonResponse(cleaned) = cleaned

\* a value between a json fence and a plain one, each on a line of its own,
\* has been cleaned to the value alone
C21_Witness ==
  /\ analyze.pc = "cleaned"
  /\ analyze.text =
       FenceJson \o << LineBreak, "[approaches]", LineBreak >> \o Fence
  /\ analyze.cleanedText = << "[approaches]" >>

Served(tree, url) ==
  /\ tree[url.id].exists
  /\ \E i \in 1..Len(tree[url.id].items) :
       tree[url.id].items[i] = File(url.file)

\* the step answers request j with a video URL
AnswersWithUrl(j) ==
  res[j] = << >> /\ res'[j] # << >> /\ res'[j][1].status = 200

\* C23: when a POST /getAnimation request is answered with a video URL, the
\* published file that URL names exists at that moment, whatever requests to
\* the cleanup endpoints were served while the request was in progress.
C23_SuccessNamesExistingFile ==
  [][\A j \in Jobs :
       AnswersWithUrl(j) => Served(videos', res'[j][1].videoUrl)]_vars

\* ------------------------------------------------------------ C24
\* C24: once a request has ended in Failed, at whatever stage, no published
\* directory videos/<jobId> exists for it, also when the mux failed after the
\* directory was created.
C24_NoPublishedDirAfterFailure ==
  \A j \in Jobs :
    (Ended(j) /\ Failed(j) /\ scriptId[j] # NoId) => ~videos[scriptId[j]].exists

\* ------------------------------------------------------------ C25
\* the stages that create a file or a directory or spawn a subprocess
AllocEvents == {"mkdir", "write", "speech.start", "render.start", "publish",
                "mux.start"}

EarlyFailure(j) == HasEvent(j, "narration.fail") \/ HasEvent(j, "script.fail")

\* C25: a request whose narration or script generation fails ends in Failed
\* with nothing allocated: no working directory, driver file, audio file or
\* published directory was created for it and no subprocess spawned, and the
\* step that fails, cleanup included, leaves the filesystem as it was.
C25_EarlyFailureAllocatesNothing ==
  /\ [](\A j \in Jobs :
         EarlyFailure(j) =>
           /\ Ended(j) /\ Answered500(j)
           /\ \A i \in 1..Len(log[j]) : log[j][i] \notin AllocEvents
           /\ renderDir[j] = NoId /\ audioFilePath[j] = NoId
           /\ finalVideoPath[j] = NoFile
           /\ pyProc[j] = "none" /\ manimProc[j] = "none" /\ ffProc[j] = "none"
           /\ scriptId[j] # NoId =>
                /\ ~renders[scriptId[j]].exists
                /\ ~videos[scriptId[j]].exists
                /\ scriptId[j] \notin audioFiles \cup driverFiles)
  /\ [][\A j \in Jobs :
          (~EarlyFailure(j) /\ EarlyFailure(j)') =>
            fsVars' = fsVars /\ procVars' = procVars]_vars

\* the script generation of one request has failed while the other request is
\* rendering, its working directory and audio file in place
C25_Witness ==
  \E j, k \in Jobs :
    /\ HasEvent(j, "script.fail") /\ Ended(j) /\ scriptId[j] # NoId
    /\ pc[k] = "rendering"
    /\ renders[scriptId[k]].exists /\ scriptId[k] \in audioFiles

\* ------------------------------------------------------------ C26
\* the events that report a stage being invoked
StartEvents == {"narration.start", "script.start", "speech.start",
                "render.start", "mux.start"}

Times(j, e) == Cardinality({i \in 1..Len(log[j]) : log[j][i] = e})

\* the subprocess, once spawned, is not spawned again
SpawnedOnce(proc) ==
  \A j \in Jobs : proc[j] \in {"errored", "closed"} => proc'[j] # "running"

\* C26: within one request each stage (narration generation, script
\* generation, speech subprocess, renderer, muxer) is invoked at most once,
\* whether it succeeds or fails.
C26_NoRetries ==
  /\ [](\A j \in Jobs : \A e \in StartEvents : Times(j, e) <= 1)
  /\ [][SpawnedOnce(pyProc) /\ SpawnedOnce(manimProc) /\ SpawnedOnce(ffProc)]_vars

\* a request has ended in a mux failure, each of the five stages invoked once
C26_Witness ==
  \E j \in Jobs :
    /\ Ended(j) /\ HasEvent(j, "mux.fail") /\ ffProc[j] = "closed"
    /\ \A e \in StartEvents : Times(j, e) = 1

\* ------------------------------------------------------------ C27
\* the cleanup block of request j, run on the filesystem given
CleanupRun(j, rs, au) ==
  cleanupTemp(renderDir[j], audioFilePath[j], rs, au, FALSE, FALSE)

\* C27: the cleanup block of a request (delete the working directory if it
\* exists, delete the audio file if it exists), run a second time, raises no
\* error and leaves the filesystem as the first run left it: at whatever
\* moment the two runs are made, and where the program makes them, in the
\* 'error' listener of the renderer and then in its 'close' listener.
C27_CleanupIdempotent ==
  /\ [](\A j \in Jobs :
         LET first == CleanupRun(j, renders, audioFiles)
             second == CleanupRun(j, first.renders, first.audioFiles)
         IN /\ ~first.threw /\ ~second.threw
            /\ second.renders = first.renders
            /\ second.audioFiles = first.audioFiles)
  /\ [][\A j \in Jobs :
          (manimProc[j] = "errored" /\ manimProc'[j] = "closed") =>
            /\ renders' = renders /\ audioFiles' = audioFiles
            /\ ~HasEvent(j, "cleanup.throw")']_vars

\* the renderer could not be started: the cleanup block has run in its 'error'
\* listener, removing the working directory and the audio file, and again in
\* its 'close' listener
C27_Witness ==
  \E j \in Jobs :
    /\ HasEvent(j, "render.error") /\ manimProc[j] = "closed"
    /\ Times(j, "cleanup") = 2
    /\ renderDir[j] # NoId /\ audioFilePath[j] # NoId
    /\ ~renders[renderDir[j]].exists /\ audioFilePath[j] \notin audioFiles

\* ------------------------------------------------------------ C28
RECURSIVE FollowsOrder(_, _)
\* r is what the stated search order yields for the listing items: the first
\* file of the listing whose name ends in ".mp4"; failing that, the name of
\* the first subdirectory that holds a matching file anywhere below it,
\* followed by what the same order yields for that subdirectory; failing
\* that, not-found.
FollowsOrder(items, r) ==
  LET files == {i \in 1..Len(items) :
                  items[i].isFile /\ EndsWithMp4(items[i].name)}
      subdirs == {i \in 1..Len(items) :
                    ~items[i].isFile /\ Matches(<< >>, items[i].items) # {}}
  IN IF files # {} THEN r = << items[Min(files)].name >>
     ELSE IF subdirs # {}
          THEN /\ r # NoPath
               /\ Head(r) = items[Min(subdirs)].name
               /\ FollowsOrder(items[Min(subdirs)].items, Tail(r))
          ELSE r = NoPath

\* C28: findVideoFile(dir) returns not-found when dir does not exist;
\* otherwise the first file of dir's listing whose name ends in .mp4;
\* otherwise what the first subdirectory, in listing order, that yields a
\* match yields; otherwise not-found. A result other than not-found is a
\* file whose name ends in .mp4 and that lies in the tree under dir.
C28_SearchOrder ==
  \A j \in Jobs :
    Located(j) =>
      LET d == renders[renderDir[j]]
          r == videoPath[j]
      IN /\ ~d.exists => r = NoPath
         /\ d.exists => FollowsOrder(d.items, r)
         /\ r # NoPath =>
              /\ EndsWithMp4(r[Len(r)])
              /\ r \in Matches(<< >>, d.items)

\* c/video.mp4 was returned from a tree whose first subdirectory, a, holds a
\* subdirectory and a file but no file whose name ends in .mp4
C28_Witness ==
  \E j \in Jobs :
    /\ Located(j)
    /\ videoPath[j] = << <<"c">>, <<"video", MP4>> >>
    /\ LET items == renders[renderDir[j]].items
       IN /\ Len(items) = 2 /\ items[1].name = <<"a">>
          /\ Len(items[1].items) = 2
          /\ Matches(<< >>, items[1].items) = {}

\* ------------------------------------------------------------ C29
\* C29: DELETE /cleanup/:videoId changes nothing but the published directory
\* of the id it names, whatever videoId is: every other published directory,
\* every working directory under renders/ and every audio file under audio/
\* is left as it was; and DELETE /cleanup-all leaves all that is outside the
\* published tree as it was.
C29_CleanupTouchesOnlyPublished ==
  [][/\ CleanupVideoRequest =>
          /\ renders' = renders /\ audioFiles' = audioFiles
          /\ \A i \in Ids : videos'[i] # videos[i] => cleanupRes'.videoId = i
     /\ CleanupAllRequest =>
          renders' = renders /\ audioFiles' = audioFiles]_vars

\* ------------------------------------------------------------ C30
\* a step that issues a POST /api/getAnimation for title t
Issues(t) == fetches'[t] > fetches[t]

\* C30: fetchVideoUrl issues no POST /api/getAnimation for an approach title
\* while one is outstanding for that title, and none when a URL is kept for
\* the title: at any time at most one request per title is outstanding.
C30_OneRequestPerTitle ==
  /\ [](\A t \in Titles : fetches[t] <= 1)
  /\ [][\A t \in Titles :
          Issues(t) => fetches[t] = 0 /\ getVideoUrl(t) = NoVideoUrl]_vars

\* The half of it that holds: no request is issued for a title whose URL is
\* kept.
C30_NoRequestWhenCached ==
  [][\A t \in Titles : Issues(t) => getVideoUrl(t) = NoVideoUrl]_vars

\* The Retry button is offered for the approach shown while that approach's
\* request is outstanding: an earlier approach's request has failed since.
C30_RetryWhileOutstanding ==
  ErrorShown /\ fetches[approachTitle] = 1 /\ videoRequested[approachTitle]

\* A request for a title whose flag is set and whose request is outstanding
\* is issued by that Retry button only.
C30_RequestDespiteFlagOnlyByRetry ==
  [][\A t \in Titles :
       Issues(t) /\ fetches[t] > 0 /\ videoRequested[t] =>
         approachTitle = t /\ C30_RetryWhileOutstanding]_vars

\* ------------------------------------------------------------ C31
\* a step in which a fetchVideoUrl call made for title t resumes
Resumed(t) == fetches'[t] < fetches[t]

\* the request ended without a URL: the fetch rejected, the response was not
\* OK, or its body had no videoUrl
FetchFailed(r) == r.rejected \/ ~r.ok \/ r.videoUrl = NoVideoUrl

\* a step that is a click on Retry
Retried == lastStep'.op = "retryLoading" /\ lastStep.op # "retryLoading"

\* a step that is a click on Retry right after a call for title t failed
RetriedAfterFailure(t) ==
  /\ Retried
  /\ lastStep = PlayerStep("fetchVideoUrl", t, lastStep.outcome)
  /\ FetchFailed(lastStep.outcome)

\* A failed fetch resets the title's requested flag, records an error and
\* keeps no URL; the loading indicator is cleared.
C31_FailureResets ==
  [][\A t \in Titles :
       Resumed(t) /\ FetchFailed(lastStep'.outcome) =>
         /\ ~videoRequested'[t]
         /\ playerError' # NoError
         /\ videoUrls' = videoUrls
         /\ ~isLoading']_vars

\* A fetch that succeeded keeps the URL under its title and leaves the
\* requested flags and the error as they were; the loading indicator is
\* cleared.
C31_SuccessCaches ==
  [][\A t \in Titles :
       Resumed(t) /\ ~FetchFailed(lastStep'.outcome) =>
         /\ videoUrls' = [videoUrls EXCEPT
                            ![t] = fullUrl(lastStep'.outcome.videoUrl)]
         /\ videoRequested' = videoRequested
         /\ playerError' = playerError
         /\ ~isLoading']_vars

\* A click on Retry issues a request for the approach shown unless a URL is
\* kept for it.
C31_RetryOfShownIssues ==
  [][Retried /\ getVideoUrl(approachTitle) = NoVideoUrl =>
       Issues(approachTitle)]_vars

\* C31: a fetch of the video URL that fails (no connection, a response that
\* is not OK, a body without videoUrl) resets the requested flag of its
\* title and records an error, and a retry that follows issues a new request
\* for that title; a fetch that succeeds keeps the URL under its title with
\* the title's flag set; either way the loading indicator is cleared.
C31_FetchSettles ==
  /\ [][\A t \in Titles :
          Resumed(t) =>
            /\ ~isLoading'
            /\ IF FetchFailed(lastStep'.outcome)
               THEN ~videoRequested'[t] /\ playerError' # NoError
               ELSE /\ getVideoUrl(t)' = fullUrl(lastStep'.outcome.videoUrl)
                    /\ videoRequested'[t]]_vars
  /\ [][\A t \in Titles : RetriedAfterFailure(t) => Issues(t)]_vars

\* The title's flag is set whenever a fetch for it succeeds.
C31_FlagSetOnSuccess ==
  [][\A t \in Titles :
       Resumed(t) /\ ~FetchFailed(lastStep'.outcome) => videoRequested'[t]]_vars

\* A retry right after a failure has issued a request for the title that
\* failed.
C31_RetriedAfterFailure ==
  /\ lastStep.op = "retryLoading"
  /\ fetches[lastStep.title] = 1
  /\ isLoading

====
